---- MODULE Spec2Model ----
(***************************************************************************)
(* Access-token verification pipeline of access-token-verifier:           *)
(*   verify                  (src/src/lib/AccessToken.ts)                  *)
(*   verifySolidAccessToken  (src/src/algorithm/verifySolidAccessToken.ts) *)
(*   issuers                 (src/unnamed/part_001)                        *)
(* together with the issuer cache and the DPoP replay store the README    *)
(* (src/unnamed/part_000) announces.                                       *)
(***************************************************************************)
EXTENDS Integers, Sequences, FiniteSets, TLC

VARIABLES
    impl,           \* which entry point runs: "verify" or "verifySolidAccessToken"
    hdr,            \* authorizationHeader argument
    maxAccessTokenAge, \* maxAccessTokenAge argument
    hasGetKeySet,   \* whether the optional getKeySet argument was supplied
    pc,             \* position of the async function
    resolver,       \* the issuer resolver's promise: "none", "pending", "resolved", "rejected"
    issuersRes,     \* value the issuer resolver resolved with
    keys,           \* value the key-set resolver resolved with
    calls,          \* collaborator calls made so far, in order
    accessToken,    \* value the function resolved with
    error,          \* error the function rejected with
    \* issuer cache (retrieveOidcIssuers)
    cclock, ccache, cflow, cfetches, clastStore, clog,
    \* DPoP replay store
    rclock, rstore, rattempt, rlog,
    \* concurrent runs of the entry points, one record of locals per run
    runs

pipeVars   == <<impl, hdr, maxAccessTokenAge, hasGetKeySet, pc, resolver, issuersRes, keys,
                calls, accessToken, error>>
cacheVars  == <<cclock, ccache, cflow, cfetches, clastStore, clog>>
replayVars == <<rclock, rstore, rattempt, rlog>>
concVars   == <<runs>>
vars       == <<pipeVars, cacheVars, replayVars, concVars>>

----------------------------------------------------------------------------
(* Claim strings.  A claim of the payload is absent (or not a string), a   *)
(* string the URL parser rejects, or a URL string.  A URL string is kept   *)
(* as protocol, host and whether it carries a path: "https://idp.example"  *)
(* has none, "https://idp.example/" has.                                   *)

NoUrl == [kind |-> "none", proto |-> "", host |-> "", slash |-> FALSE]

Absent  == [kind |-> "absent",  proto |-> "", host |-> "", slash |-> FALSE]
Garbage == [kind |-> "garbage", proto |-> "", host |-> "", slash |-> FALSE]

UrlStr(p, h, s) == [kind |-> "url", proto |-> p, host |-> h, slash |-> s]

IdpBare    == UrlStr("https:", "idp.example", FALSE)
IdpSlash   == UrlStr("https:", "idp.example", TRUE)
EvilSlash  == UrlStr("https:", "evil.example", TRUE)
IdpHttp    == UrlStr("http:",  "idp.example", TRUE)
IdpFtp     == UrlStr("ftp:",   "idp.example", TRUE)
AliceHttps == UrlStr("https:", "alice.example/profile#me", TRUE)
AliceHttp  == UrlStr("http:",  "alice.example/profile#me", TRUE)
AliceFtp   == UrlStr("ftp:",   "alice.example/profile#me", TRUE)

IssClaims   == {Absent, Garbage, IdpBare, IdpSlash, EvilSlash, IdpHttp, IdpFtp}
WebidClaims == {Absent, Garbage, AliceHttps, AliceHttp, AliceFtp}

(* Issuer lists an identity document can carry (quad.object.value, raw).   *)
DocIssuerLists == {{}, {IdpBare}, {IdpSlash}, {EvilSlash}, {IdpSlash, EvilSlash},
                   {IdpFtp}}

(* new URL(s): throws for a string that is not a URL.                      *)
CanParseUrl(s) == s.kind = "url"

(* new URL(s).toString(): the serialised href always carries a path.       *)
UrlToString(s) == [s EXCEPT !.slash = TRUE]

----------------------------------------------------------------------------
(* Time, in seconds.                                                       *)
Now == 100000

maxAccessTokenAgeInSeconds == 86400
clockToleranceInSeconds    == 5

asymetricCryptographicAlgorithm == {"ES256", "PS256", "RS256"}

MaxAgeArgs == {maxAccessTokenAgeInSeconds, 3600}

----------------------------------------------------------------------------
(* Authorization headers.  pre: the scheme words in front of the compact   *)
(* serialisation; nsegs: its number of dot-separated segments; payloadOk:  *)
(* the middle segment is base64url of a JSON text; iss, webid: the claims; *)
(* alg, aud, iat, exp: what the signed parts state; signer: the host whose *)
(* key signed it.                                                          *)

GoodHeader ==
    [pre |-> <<"DPoP ">>, nsegs |-> 3, payloadOk |-> TRUE,
     iss |-> IdpSlash, webid |-> AliceHttps,
     alg |-> "ES256", aud |-> "solid", signer |-> "idp.example",
     iat |-> Now, exp |-> Now + 100]

Prefixes == {<<>>, <<"DPoP ">>, <<"Bearer ">>, <<"Basic ">>, <<"DPoP ", "Bearer ">>}

AllHeaders ==
    [pre : Prefixes, nsegs : 1..4, payloadOk : BOOLEAN,
     iss : IssClaims, webid : WebidClaims,
     alg : {"ES256", "HS256"}, aud : {"solid", "other"},
     signer : {"idp.example", "evil.example"},
     iat : {Now - 86406, Now - 4000, Now, Now + 6}, exp : {Now - 5, Now + 100}]

HeaderFields ==
    {"pre", "nsegs", "payloadOk", "iss", "webid", "alg", "aud", "signer", "iat", "exp"}

(* Headers that differ from the good one in at most MaxDeviations fields.  *)
MaxDeviations == 2

Deviations(h) == Cardinality({f \in HeaderFields : h[f] # GoodHeader[f]})

Headers == {h \in AllHeaders : Deviations(h) <= MaxDeviations}

----------------------------------------------------------------------------
(* Errors: the taxonomy kind and the error the code throws.                *)
Err(k, n) == [kind |-> k, name |-> n]
NoError   == Err("none", "none")

(* The replacement with one of the two scheme words forgotten.             *)
valueBearerOnly(token) ==
    IF Len(token.pre) > 0 /\ Head(token.pre) = "Bearer "
    THEN [token EXCEPT !.pre = Tail(token.pre)]
    ELSE token

(* authorizationHeader.replace(/^(DPoP|Bearer) /, ""): removes one leading *)
(* "DPoP " or "Bearer ", and nothing when the header starts otherwise.     *)
value(token) ==
    IF Len(token.pre) > 0 /\ Head(token.pre) \in {"DPoP ", "Bearer "}
    THEN [token EXCEPT !.pre = Tail(token.pre)]
    ELSE token

(* token.split("."): the segments, in order; what is left of the scheme    *)
(* words stays glued to the first one.                                     *)
Split(token) ==
    [i \in 1..token.nsegs |->
        CASE i = 1 -> [part |-> "header", pre |-> token.pre]
          [] i = 2 -> [part |-> "payload", pre |-> <<>>]
          [] i = 3 -> [part |-> "signature", pre |-> <<>>]
          [] OTHER -> [part |-> "extra", pre |-> <<>>]]

(* JSON.parse(decode(token.split(".")[1])): the payload, or a throw when   *)
(* there is no second segment or it is not base64url of a JSON text.       *)
CanDecodePayload(token) == Len(Split(token)) >= 2 /\ token.payloadOk

Payload(token) ==
    [iss |-> token.iss, webid |-> token.webid, aud |-> token.aud,
     iat |-> token.iat, exp |-> token.exp]

(* isAccessTokenPayload / isSolidAccessTokenPayload: iss and webid are     *)
(* strings.                                                                *)
isAccessTokenPayload(p) == p.iss.kind # "absent" /\ p.webid.kind # "absent"

(* urlClaim: new URL(claim), then the protocol must be https: or http:.    *)
UrlClaimProtocols == {"https:", "http:"}

urlClaim(claim) ==
    IF ~CanParseUrl(claim)
    THEN [ok |-> FALSE, err |-> Err("InvalidClaimUri", "TypeError: Invalid URL"), url |-> NoUrl]
    ELSE IF UrlToString(claim).proto \notin UrlClaimProtocols
    THEN [ok |-> FALSE, err |-> Err("InsecureClaimUri", "TypeError: Unsupported URL claim protocol."),
          url |-> NoUrl]
    ELSE [ok |-> TRUE, err |-> NoError, url |-> UrlToString(claim)]

(* new URL(claim) alone, as verifySolidAccessToken's verifiableClaims does. *)
newURL(claim) ==
    IF ~CanParseUrl(claim)
    THEN [ok |-> FALSE, err |-> Err("InvalidClaimUri", "TypeError: Invalid URL"), url |-> NoUrl]
    ELSE [ok |-> TRUE, err |-> NoError, url |-> UrlToString(claim)]

NoClaims(e) == [ok |-> FALSE, err |-> e, iss |-> NoUrl, webid |-> NoUrl]

(* verifiableClaims of lib/AccessToken.ts: iss is converted before webid.  *)
verifiableClaims(token) ==
    IF ~CanDecodePayload(token)
    THEN NoClaims(Err("MalformedToken", "decode"))
    ELSE IF ~isAccessTokenPayload(Payload(token))
    THEN NoClaims(Err("MalformedToken", "isAccessTokenPayload"))
    ELSE IF ~urlClaim(Payload(token).iss).ok
    THEN NoClaims(urlClaim(Payload(token).iss).err)
    ELSE IF ~urlClaim(Payload(token).webid).ok
    THEN NoClaims(urlClaim(Payload(token).webid).err)
    ELSE [ok |-> TRUE, err |-> NoError,
          iss |-> urlClaim(Payload(token).iss).url,
          webid |-> urlClaim(Payload(token).webid).url]

(* verifiableClaims of algorithm/verifySolidAccessToken.ts.                *)
verifiableClaimsSolid(token) ==
    IF ~CanDecodePayload(token)
    THEN NoClaims(Err("MalformedToken", "decode"))
    ELSE IF ~isAccessTokenPayload(Payload(token))
    THEN NoClaims(Err("MalformedToken", "isSolidAccessTokenPayload"))
    ELSE IF ~newURL(Payload(token).iss).ok
    THEN NoClaims(newURL(Payload(token).iss).err)
    ELSE IF ~newURL(Payload(token).webid).ok
    THEN NoClaims(newURL(Payload(token).webid).err)
    ELSE [ok |-> TRUE, err |-> NoError,
          iss |-> newURL(Payload(token).iss).url,
          webid |-> newURL(Payload(token).webid).url]

(* verifySecureUriClaim(uri, claim): the Secure-URI Guard; both transport  *)
(* schemes pass, any other scheme is refused.                              *)
verifySecureUriClaim(uri) == uri.proto \in {"https:", "http:"}

(* The membership test with its negation lost: nothing is refused.         *)
includesAnything(list, s) == TRUE

(* The membership test that takes an empty list for "no restriction".      *)
includesOrEmpty(list, s) == list = {} \/ s \in list

(* issuers.includes(iss.toString()): string equality with a listed value. *)
includes(list, s) == s \in list

(* verifySolidAccessTokenIssuer(issuers, iss.toString()).                  *)
verifySolidAccessTokenIssuer(list, s) == includes(list, s)

----------------------------------------------------------------------------
(* The cryptographic primitive jwtVerify(jwt, keySet, options), by the     *)
(* checks the doc comment of verify lists: compact form, allowed           *)
(* algorithm, signature against the key set, audience, expiry, age.        *)

NoOptions == [audience |-> "", algorithms |-> {}, maxTokenAge |-> 0, clockTolerance |-> 0]
NoKeys    == [owner |-> ""]
NoToken   == [header |-> "", payload |-> Payload(GoodHeader) , signature |-> "", set |-> FALSE]

JwtVerifyError(token, keySet, options) ==
    IF Len(Split(token)) # 3 \/ Split(token)[1].pre # <<>>
    THEN Err("SignatureOrClaimInvalid", "JWSInvalid")
    ELSE IF token.alg \notin options.algorithms
    THEN Err("SignatureOrClaimInvalid", "JOSEAlgNotAllowed")
    ELSE IF keySet.owner # token.signer
    THEN Err("SignatureOrClaimInvalid", "JWSSignatureVerificationFailed")
    ELSE IF token.aud # options.audience
    THEN Err("SignatureOrClaimInvalid", "JWTClaimValidationFailed: aud")
    ELSE IF token.exp <= Now - options.clockTolerance
    THEN Err("SignatureOrClaimInvalid", "JWTExpired: exp")
    ELSE IF (Now - token.iat) - options.clockTolerance > options.maxTokenAge
    THEN Err("SignatureOrClaimInvalid", "JWTExpired: iat")
    ELSE IF (Now - token.iat) < 0 - options.clockTolerance
    THEN Err("SignatureOrClaimInvalid", "JWTClaimValidationFailed: iat")
    ELSE NoError

JwtVerify(token, keySet, options) ==
    [err |-> JwtVerifyError(token, keySet, options),
     payload |-> Payload(token),
     protectedHeader |-> token.alg]

(* The options object with a shared-secret algorithm let into the list.    *)
VerifyOptionsWithHmac(maxAge) ==
    [audience |-> "solid",
     algorithms |-> asymetricCryptographicAlgorithm \cup {"HS256"},
     maxTokenAge |-> maxAge,
     clockTolerance |-> clockToleranceInSeconds]

(* The options object both entry points build for jwtVerify.               *)
VerifyOptions(maxAge) ==
    [audience |-> "solid",
     algorithms |-> asymetricCryptographicAlgorithm,
     maxTokenAge |-> maxAge,
     clockTolerance |-> clockToleranceInSeconds]

(* isAccessToken / isSolidAccessToken on the assembled value: a payload    *)
(* with its string claims and a signature that is a string.                *)
isAccessToken(t) ==
    isAccessTokenPayload(t.payload) /\ t.signature \in {"header", "payload", "signature", "extra"}

(* The access token assembled with the wrong segment as its signature.     *)
AssembleWithSecondSegment(res, token) ==
    [header |-> res.protectedHeader, payload |-> res.payload,
     signature |-> Split(token)[2].part, set |-> TRUE]

(* The value both entry points assemble from what jwtVerify returned       *)
(* (verify 107-111, verifySolidAccessToken 89-93).                         *)
AssembleAccessToken(res, token) ==
    [header |-> res.protectedHeader, payload |-> res.payload,
     signature |-> Split(token)[3].part, set |-> TRUE]

Call(f, a, o) == [fn |-> f, arg |-> a, options |-> o]

----------------------------------------------------------------------------
(* One run of a verification entry point.                                  *)

PipeIdle ==
    /\ impl = "none" /\ hdr = GoodHeader /\ maxAccessTokenAge = 0
    /\ hasGetKeySet = FALSE /\ pc = "off" /\ resolver = "none" /\ issuersRes = {} /\ keys = NoKeys
    /\ calls = <<>> /\ accessToken = NoToken /\ error = NoError

CacheIdle ==
    /\ cclock = 0 /\ ccache = <<>> /\ cflow = <<>> /\ cfetches = 0
    /\ clastStore = -1 /\ clog = <<>>

ReplayIdle ==
    /\ rclock = 0 /\ rstore = {} /\ rattempt = <<>> /\ rlog = <<>>

ConcIdle == runs = <<>>

Init ==
    /\ impl \in {"verify", "verifySolidAccessToken"}
    /\ hdr \in Headers
    /\ maxAccessTokenAge \in MaxAgeArgs
    /\ hasGetKeySet \in (IF impl = "verify" THEN {TRUE} ELSE BOOLEAN)
    /\ pc = "start"
    /\ resolver = "none"
    /\ issuersRes = {}
    /\ keys = NoKeys
    /\ calls = <<>>
    /\ accessToken = NoToken
    /\ error = NoError
    /\ CacheIdle
    /\ ReplayIdle
    /\ ConcIdle

Reject(e) ==
    /\ pc' = "Rejected"
    /\ error' = e
    /\ UNCHANGED accessToken

(* verify, lines 81-88: strip the scheme, extract the claims, call         *)
(* issuers(webid).                                                         *)
VerifyStart ==
    /\ impl = "verify" /\ pc = "start"
    /\ LET token  == value(hdr)
           claims == verifiableClaims(token)
       IN IF ~claims.ok
          THEN Reject(claims.err) /\ UNCHANGED <<calls, resolver>>
          ELSE /\ calls' = Append(calls, Call("issuers", claims.webid, NoOptions))
               /\ pc' = "dereference"
               /\ resolver' = "pending"
               /\ UNCHANGED <<accessToken, error>>
    /\ UNCHANGED <<impl, hdr, maxAccessTokenAge, hasGetKeySet, issuersRes, keys>>
    /\ UNCHANGED <<cacheVars, replayVars, concVars>>

(* The resolver's failure swallowed and taken for "no issuer listed".      *)
DereferenceRejectsAsUntrusted ==
    /\ pc = "dereference"
    /\ resolver' = "rejected"
    /\ Reject(Err("UntrustedIssuer", "SolidIdentityInvalidIssuerClaim"))
    /\ UNCHANGED <<impl, hdr, maxAccessTokenAge, hasGetKeySet, issuersRes, keys, calls>>
    /\ UNCHANGED <<cacheVars, replayVars, concVars>>

(* issuers, lines 10-12: rdfDereferencer.dereference rejects; the await    *)
(* in verify rethrows.                                                     *)
DereferenceRejects ==
    /\ pc = "dereference"
    /\ resolver' = "rejected"
    /\ Reject(Err("IssuerDiscoveryFailed", "dereference"))
    /\ UNCHANGED <<impl, hdr, maxAccessTokenAge, hasGetKeySet, issuersRes, keys, calls>>
    /\ UNCHANGED <<cacheVars, replayVars, concVars>>

(* issuers, lines 10-17: dereference resolves with a quad stream, which    *)
(* the store starts to import.                                             *)
DereferenceResolves ==
    /\ pc = "dereference"
    /\ pc' = "streaming"
    /\ UNCHANGED <<impl, hdr, maxAccessTokenAge, hasGetKeySet, resolver, issuersRes, keys, calls,
                   accessToken, error>>
    /\ UNCHANGED <<cacheVars, replayVars, concVars>>

(* issuers, lines 17-27: the stream ends; the matching quads' objects are  *)
(* the resolved list.                                                      *)
StreamEnd ==
    /\ pc = "streaming"
    /\ \E list \in DocIssuerLists : issuersRes' = list
    /\ resolver' = "resolved"
    /\ pc' = "issuers"
    /\ UNCHANGED <<impl, hdr, maxAccessTokenAge, hasGetKeySet, keys, calls, accessToken, error>>
    /\ UNCHANGED <<cacheVars, replayVars, concVars>>

(* issuers, lines 16-28: the stream reports an error; only "end" is        *)
(* listened for and the promise has no reject, so it never settles.        *)
StreamError ==
    /\ pc = "streaming"
    /\ pc' = "hung"
    /\ UNCHANGED <<impl, hdr, maxAccessTokenAge, hasGetKeySet, resolver, issuersRes, keys, calls,
                   accessToken, error>>
    /\ UNCHANGED <<cacheVars, replayVars, concVars>>

(* verify, lines 88-98: the membership test, then keySet(iss).             *)
VerifyIssuerCheck ==
    /\ impl = "verify" /\ pc = "issuers"
    /\ LET claims == verifiableClaims(value(hdr))
       IN IF ~includes(issuersRes, claims.iss)
          THEN Reject(Err("UntrustedIssuer", "SolidIdentityInvalidIssuerClaim"))
               /\ UNCHANGED calls
          ELSE /\ calls' = Append(calls, Call("keySet", claims.iss, NoOptions))
               /\ pc' = "keySet"
               /\ UNCHANGED <<accessToken, error>>
    /\ UNCHANGED <<impl, hdr, maxAccessTokenAge, hasGetKeySet, resolver, issuersRes, keys>>
    /\ UNCHANGED <<cacheVars, replayVars, concVars>>

(* verifySolidAccessToken, lines 53-63: strip the scheme, extract the      *)
(* claims, guard the webid, call retrieveOidcIssuers(webid, getIssuers).   *)
SolidStart ==
    /\ impl = "verifySolidAccessToken" /\ pc = "start"
    /\ LET accessTokenValue == value(hdr)
           claims           == verifiableClaimsSolid(accessTokenValue)
       IN IF ~claims.ok
          THEN Reject(claims.err) /\ UNCHANGED <<calls, resolver>>
          ELSE IF ~verifySecureUriClaim(claims.webid)
          THEN Reject(Err("InsecureClaimUri", "webid")) /\ UNCHANGED <<calls, resolver>>
          ELSE /\ calls' = Append(calls, Call("issuers", claims.webid, NoOptions))
               /\ pc' = "retrieve"
               /\ resolver' = "pending"
               /\ UNCHANGED <<accessToken, error>>
    /\ UNCHANGED <<impl, hdr, maxAccessTokenAge, hasGetKeySet, issuersRes, keys>>
    /\ UNCHANGED <<cacheVars, replayVars, concVars>>

(* retrieveOidcIssuers resolves with the identity's issuer list.           *)
RetrieveResolves ==
    /\ pc = "retrieve"
    /\ \E list \in DocIssuerLists : issuersRes' = list
    /\ resolver' = "resolved"
    /\ pc' = "issuers"
    /\ UNCHANGED <<impl, hdr, maxAccessTokenAge, hasGetKeySet, keys, calls, accessToken, error>>
    /\ UNCHANGED <<cacheVars, replayVars, concVars>>

(* retrieveOidcIssuers rejects; the await at line 63 rethrows.             *)
RetrieveRejects ==
    /\ pc = "retrieve"
    /\ resolver' = "rejected"
    /\ Reject(Err("IssuerDiscoveryFailed", "retrieveOidcIssuers"))
    /\ UNCHANGED <<impl, hdr, maxAccessTokenAge, hasGetKeySet, issuersRes, keys, calls>>
    /\ UNCHANGED <<cacheVars, replayVars, concVars>>

(* verifySolidAccessToken, lines 66-80: the issuer check, the guard of the *)
(* issuer claim, then getKeySet(iss); getKeySet is an optional parameter.  *)
SolidIssuerCheck ==
    /\ impl = "verifySolidAccessToken" /\ pc = "issuers"
    /\ LET claims == verifiableClaimsSolid(value(hdr))
       IN IF ~verifySolidAccessTokenIssuer(issuersRes, claims.iss)
          THEN Reject(Err("UntrustedIssuer", "SolidIdentityInvalidIssuerClaim"))
               /\ UNCHANGED calls
          ELSE IF ~verifySecureUriClaim(claims.iss)
          THEN Reject(Err("InsecureClaimUri", "iss")) /\ UNCHANGED calls
          ELSE IF ~hasGetKeySet
          THEN Reject(Err("KeySetRetrievalFailed", "TypeError: getKeySet is not a function"))
               /\ UNCHANGED calls
          ELSE /\ calls' = Append(calls, Call("keySet", claims.iss, NoOptions))
               /\ pc' = "keySet"
               /\ UNCHANGED <<accessToken, error>>
    /\ UNCHANGED <<impl, hdr, maxAccessTokenAge, hasGetKeySet, resolver, issuersRes, keys>>
    /\ UNCHANGED <<cacheVars, replayVars, concVars>>

(* Both entry points (verify 96-105, verifySolidAccessToken 78-87): the    *)
(* key-set resolver resolves with the keys of the issuer it was asked for, *)
(* and jwtVerify is called with them and the options.                      *)
KeySetResolves ==
    /\ pc = "keySet"
    /\ keys' = [owner |-> calls[Len(calls)].arg.host]
    /\ calls' = Append(calls, Call("jwtVerify", NoUrl, VerifyOptions(maxAccessTokenAge)))
    /\ pc' = "jwtVerify"
    /\ UNCHANGED <<impl, hdr, maxAccessTokenAge, hasGetKeySet, resolver, issuersRes, accessToken, error>>
    /\ UNCHANGED <<cacheVars, replayVars, concVars>>

(* The key-set resolver rejects; the await rethrows before jwtVerify is    *)
(* called.                                                                 *)
KeySetRejects ==
    /\ pc = "keySet"
    /\ Reject(Err("KeySetRetrievalFailed", "keySet"))
    /\ UNCHANGED <<impl, hdr, maxAccessTokenAge, hasGetKeySet, resolver, issuersRes, keys, calls>>
    /\ UNCHANGED <<cacheVars, replayVars, concVars>>

(* Both entry points (verify 96-115, verifySolidAccessToken 78-97):        *)
(* jwtVerify settles; on success the access token is assembled, guarded    *)
(* and returned.                                                           *)
JwtVerifySettles ==
    /\ pc = "jwtVerify"
    /\ LET token == value(hdr)
           res   == JwtVerify(token, keys, calls[Len(calls)].options)
           at    == AssembleAccessToken(res, token)
       IN IF res.err # NoError
          THEN Reject(res.err)
          ELSE IF ~isAccessToken(at)
          THEN Reject(Err("MalformedToken", "isAccessToken"))
          ELSE /\ accessToken' = at
               /\ pc' = "Accepted"
               /\ UNCHANGED error
    /\ UNCHANGED <<impl, hdr, maxAccessTokenAge, hasGetKeySet, resolver, issuersRes, keys, calls>>
    /\ UNCHANGED <<cacheVars, replayVars, concVars>>

Next ==
    \/ VerifyStart
    \/ DereferenceRejects
    \/ DereferenceResolves
    \/ StreamEnd
    \/ StreamError
    \/ VerifyIssuerCheck
    \/ SolidStart
    \/ RetrieveResolves
    \/ RetrieveRejects
    \/ SolidIssuerCheck
    \/ KeySetResolves
    \/ KeySetRejects
    \/ JwtVerifySettles

Spec == Init /\ [][Next]_vars

(* The scheduler runs every pending continuation and every collaborator    *)
(* eventually reports what it has to report.                               *)
LiveSpec == Init /\ [][Next]_vars /\ WF_vars(Next)

----------------------------------------------------------------------------
(* Properties of the verification pipeline.                                *)

Terminal == pc \in {"Accepted", "Rejected"}

HasCall(f) == \E i \in 1..Len(calls) : calls[i].fn = f

(* The primitive's answer for the presented token, given the keys of the   *)
(* issuer the token names and the options the entry points use.            *)
PrimitiveAccepts ==
    /\ CanParseUrl(hdr.iss)
    /\ JwtVerifyError(value(hdr), [owner |-> hdr.iss.host],
                      VerifyOptions(maxAccessTokenAge)) = NoError

(* C1: a token whose issuer claim is not a member of the issuer set the    *)
(* resolver returned for its webid ends in Rejected with UntrustedIssuer,  *)
(* so it never gets past the trust check.                                  *)
C1_UntrustedIssuerRejected ==
    (resolver = "resolved" /\ hdr.iss \notin issuersRes)
        => /\ pc \in {"issuers", "Rejected"}
           /\ pc = "Rejected" => error.kind = "UntrustedIssuer"

(* A well-formed token: one scheme word at most, three segments, a         *)
(* decodable payload, both claims URLs of a transport scheme.              *)
WellFormed(h) ==
    /\ value(h).pre = <<>>
    /\ h.nsegs = 3
    /\ h.payloadOk
    /\ CanParseUrl(h.iss) /\ verifySecureUriClaim(UrlToString(h.iss))
    /\ CanParseUrl(h.webid) /\ verifySecureUriClaim(UrlToString(h.webid))

(* C2: a well-formed token whose issuer claim is in the issuer set         *)
(* resolved for its webid and which the primitive accepts under the fixed  *)
(* policy ends in Accepted, and the returned access token carries the      *)
(* webid claimed in the token (the key set being delivered).               *)
C2_EndorsedValidAccepted ==
    (/\ Terminal
     /\ WellFormed(hdr)
     /\ resolver = "resolved"
     /\ hdr.iss \in issuersRes
     /\ PrimitiveAccepts
     /\ hasGetKeySet
     /\ error.kind # "KeySetRetrievalFailed")
        => /\ pc = "Accepted"
           /\ accessToken.payload.webid = hdr.webid

(* The issuer trust check of the run has passed.                           *)
TrustCheckPassed ==
    /\ resolver = "resolved"
    /\ CanParseUrl(hdr.iss)
    /\ UrlToString(hdr.iss) \in issuersRes

FailClosedState ==
    /\ \A i \in 1..Len(calls) :
          /\ calls[i].fn \in {"keySet", "jwtVerify"}
                => TrustCheckPassed /\ \E j \in 1..(i - 1) : calls[j].fn = "issuers"
          /\ calls[i].fn = "keySet"
                => CanParseUrl(hdr.iss) /\ calls[i].arg = UrlToString(hdr.iss)
          /\ calls[i].fn = "jwtVerify"
                => i > 1 /\ calls[i - 1].fn = "keySet" /\ keys # NoKeys
    /\ pc = "Rejected"
          => /\ accessToken = NoToken
             /\ error.kind \in {"MalformedToken", "InvalidClaimUri"} /\ error.name # "isAccessToken"
                   => calls = <<>>
             /\ error.kind \in {"IssuerDiscoveryFailed", "UntrustedIssuer"}
                   => ~HasCall("keySet") /\ ~HasCall("jwtVerify")
             /\ error.kind = "KeySetRetrievalFailed" => ~HasCall("jwtVerify")
    /\ pc = "Accepted"
          => error = NoError /\ HasCall("jwtVerify") /\ TrustCheckPassed

(* C3: verification is fail-closed: the key-set resolver and the primitive *)
(* are invoked only after the trust check has passed, the key-set resolver *)
(* only with the token's own issuer, and once a gate has failed no call is *)
(* made any more and the run stays Rejected.                               *)
C3_FailClosed ==
    /\ []FailClosedState
    /\ [][pc = "Rejected" => (pc' = "Rejected" /\ calls' = calls /\ error' = error)]_vars

C3_Witness ==
    /\ pc = "Rejected" /\ error.kind = "UntrustedIssuer"
    /\ calls = <<Call("issuers", AliceHttps, NoOptions)>>
    /\ PrimitiveAccepts

(* C4: when the issuer resolver is invoked, both the webid claim and the   *)
(* issuer claim have passed the Secure-URI Guard.                          *)
C4_GuardBeforeDiscovery ==
    HasCall("issuers")
        => /\ CanParseUrl(hdr.webid) /\ verifySecureUriClaim(UrlToString(hdr.webid))
           /\ CanParseUrl(hdr.iss) /\ verifySecureUriClaim(UrlToString(hdr.iss))

(* C5: an empty issuer set or a failed issuer resolver never leads to      *)
(* Accepted: the empty set stops every token at the trust check, the       *)
(* failure rejects the run before any key set is asked for.                *)
C5_EmptyOrFailedNeverTrusted ==
    /\ (resolver = "resolved" /\ issuersRes = {})
          => /\ pc \in {"issuers", "Rejected"}
             /\ ~HasCall("keySet") /\ ~HasCall("jwtVerify")
             /\ pc = "Rejected" => error.kind = "UntrustedIssuer"
    /\ resolver = "rejected"
          => /\ pc = "Rejected" /\ error.kind = "IssuerDiscoveryFailed"
             /\ ~HasCall("keySet") /\ ~HasCall("jwtVerify")
    /\ pc = "hung" => accessToken = NoToken /\ ~HasCall("keySet")

C5_Witness ==
    /\ resolver = "resolved" /\ issuersRes = {}
    /\ pc = "Rejected" /\ error.kind = "UntrustedIssuer"
    /\ PrimitiveAccepts /\ WellFormed(hdr)

SymmetricAlgorithms == {"HS256", "HS384", "HS512"}

(* C6: every call of the primitive carries the same policy: audience       *)
(* "solid", a non-empty allow-list without symmetric algorithms, the       *)
(* configured maximum age and the fixed clock tolerance; a token with a    *)
(* symmetric algorithm is never Accepted.                                  *)
C6_FixedPolicy ==
    /\ \A i \in 1..Len(calls) :
          calls[i].fn = "jwtVerify"
             => /\ calls[i].options.audience = "solid"
                /\ calls[i].options.algorithms # {}
                /\ calls[i].options.algorithms \cap SymmetricAlgorithms = {}
                /\ calls[i].options.maxTokenAge = maxAccessTokenAge
                /\ calls[i].options.clockTolerance = clockToleranceInSeconds
    /\ hdr.alg \in SymmetricAlgorithms => pc # "Accepted"

C6_Witness ==
    /\ hdr.alg = "HS256"
    /\ HasCall("jwtVerify")
    /\ pc = "Rejected" /\ error.name = "JOSEAlgNotAllowed"
    /\ hdr.signer = hdr.iss.host

(* C9: every verification run eventually reaches Accepted or Rejected.     *)
C9_RunTerminates == <>Terminal

(* A claim of the presented token uses the insecure transport scheme.      *)
HttpClaim ==
    /\ CanDecodePayload(value(hdr))
    /\ isAccessTokenPayload(Payload(value(hdr)))
    /\ CanParseUrl(hdr.iss) /\ CanParseUrl(hdr.webid)
    /\ "http:" \in {hdr.iss.proto, hdr.webid.proto}

(* C10: a token with an http: webid or issuer claim is rejected at the     *)
(* guard with InsecureClaimUri (no allowance is configured).               *)
C10_HttpRejected ==
    HttpClaim
        => /\ pc \in {"start", "Rejected"}
           /\ pc = "Rejected" => error.kind = "InsecureClaimUri"

----------------------------------------------------------------------------
(* The issuer cache in front of the identity-document fetch                *)
(* (retrieveOidcIssuers): look the identity up, return a live entry, else  *)
(* fetch, store the result for a fixed time to live and return it.         *)

Identities == {"alice", "bob"}

NumFlows    == 2
MaxClock    == 4
MaxFetches  == 3
IssuerCacheTtl == 2

Flows == 1..NumFlows

NoEntry == [set |-> FALSE, expiry |-> 0]

(* The cached entry to return for an identity at a time, if any.           *)
CacheHitStale(cache, id, now) == cache[id].set

CacheHit(cache, id, now) == cache[id].set /\ now < cache[id].expiry

CachePut(cache, id, now) ==
    [cache EXCEPT ![id] = [set |-> TRUE, expiry |-> now + IssuerCacheTtl]]

IdleFlow == [pc |-> "idle", id |-> "alice", live |-> FALSE, stored |-> FALSE, start |-> 0]

CacheInit ==
    /\ cclock = 0
    /\ ccache = [id \in Identities |-> NoEntry]
    /\ cflow = [f \in Flows |-> IdleFlow]
    /\ cfetches = 0
    /\ clastStore = [id \in Identities |-> -1]
    /\ clog = {}
    /\ PipeIdle
    /\ ReplayIdle
    /\ ConcIdle

(* Whether, by the history of stores, an entry of the identity is within   *)
(* its time to live.                                                       *)
LiveByHistory(id) == clastStore[id] >= 0 /\ cclock < clastStore[id] + IssuerCacheTtl

Resolved(f, fl, fetched, ok) ==
    [id |-> fl.id, live |-> fl.live, stored |-> fl.stored, fetched |-> fetched, ok |-> ok]

CTick ==
    /\ cclock < MaxClock
    /\ cclock' = cclock + 1
    /\ UNCHANGED <<ccache, cflow, cfetches, clastStore, clog>>
    /\ UNCHANGED <<pipeVars, replayVars, concVars>>

(* A flow resolves an identity: a live entry is returned at once, else the *)
(* underlying fetch is started.                                            *)
CLookup(f, id) ==
    /\ cflow[f].pc = "idle"
    /\ LET fl == [pc |-> "fetching", id |-> id, live |-> LiveByHistory(id),
                  stored |-> clastStore[id] >= 0, start |-> cclock]
       IN IF CacheHit(ccache, id, cclock)
          THEN /\ clog' = clog \cup {Resolved(f, fl, 0, TRUE)}
               /\ UNCHANGED <<cflow, cfetches>>
          ELSE /\ cfetches < MaxFetches
               /\ cfetches' = cfetches + 1
               /\ cflow' = [cflow EXCEPT ![f] = fl]
               /\ UNCHANGED clog
    /\ UNCHANGED <<cclock, ccache, clastStore>>
    /\ UNCHANGED <<pipeVars, replayVars, concVars>>

(* The fetch succeeded: the result is stored and returned.                 *)
CFetchOk(f) ==
    /\ cflow[f].pc = "fetching"
    /\ ccache' = CachePut(ccache, cflow[f].id, cclock)
    /\ clastStore' = [clastStore EXCEPT ![cflow[f].id] = cclock]
    /\ clog' = clog \cup {Resolved(f, cflow[f], 1, TRUE)}
    /\ cflow' = [cflow EXCEPT ![f] = IdleFlow]
    /\ UNCHANGED <<cclock, cfetches>>
    /\ UNCHANGED <<pipeVars, replayVars, concVars>>

(* The failed fetch leaving an entry behind.                               *)
CFetchFailsStoresEntry(f) ==
    /\ cflow[f].pc = "fetching"
    /\ ccache' = CachePut(ccache, cflow[f].id, cclock)
    /\ clog' = clog \cup {Resolved(f, cflow[f], 1, FALSE)}
    /\ cflow' = [cflow EXCEPT ![f] = IdleFlow]
    /\ UNCHANGED <<cclock, cfetches, clastStore>>
    /\ UNCHANGED <<pipeVars, replayVars, concVars>>

(* The fetch failed: nothing is stored, the failure is returned.           *)
CFetchFails(f) ==
    /\ cflow[f].pc = "fetching"
    /\ clog' = clog \cup {Resolved(f, cflow[f], 1, FALSE)}
    /\ cflow' = [cflow EXCEPT ![f] = IdleFlow]
    /\ UNCHANGED <<cclock, ccache, cfetches, clastStore>>
    /\ UNCHANGED <<pipeVars, replayVars, concVars>>

CacheNext ==
    \/ CTick
    \/ \E f \in Flows, id \in Identities : CLookup(f, id)
    \/ \E f \in Flows : CFetchOk(f)
    \/ \E f \in Flows : CFetchFails(f)

CacheSpec == CacheInit /\ [][CacheNext]_vars

----------------------------------------------------------------------------
(* The replay store of proof identifiers: checkAndRecord(proofId,          *)
(* validUntil) answers accepted for an identifier it does not hold and     *)
(* records it, answers replayed for one it holds; entries leave the store  *)
(* only after validUntil.  A proof older than the maximum proof age is     *)
(* refused before the store is asked.                                      *)

ProofIds == {"P", "Q"}

NumAttempts    == 3
MaxReplayTicks == 3
ReplayTick     == 30
maxProofAgeInSeconds == 60

Attempts == 1..NumAttempts

(* Every proof of the model was issued at time 0.                          *)
ProofIssuedAt == 0
ValidUntil    == ProofIssuedAt + maxProofAgeInSeconds

Holds(store, id) == \E e \in store : e.id = id

(* A store that forgets what it is told.                                   *)
RecordNothing(store, id, until) == store

Record(store, id, until) == store \cup {[id |-> id, validUntil |-> until]}

ReplayInit ==
    /\ rclock = 0
    /\ rstore = {}
    /\ rattempt = [a \in Attempts |-> [pc |-> "ready", id |-> "P", at |-> 0]]
    /\ rlog = <<>>
    /\ PipeIdle
    /\ CacheIdle
    /\ ConcIdle

RTick ==
    /\ rclock < MaxReplayTicks * ReplayTick
    /\ rclock' = rclock + ReplayTick
    /\ UNCHANGED <<rstore, rattempt, rlog>>
    /\ UNCHANGED <<pipeVars, cacheVars, concVars>>

(* An attempt presents a proof whose age is within the maximum: one atomic *)
(* check-and-record.                                                       *)
CheckAndRecord(a, id) ==
    /\ rattempt[a].pc = "ready"
    /\ rclock - ProofIssuedAt <= maxProofAgeInSeconds
    /\ IF Holds(rstore, id)
       THEN /\ rattempt' = [rattempt EXCEPT ![a] = [pc |-> "ProofReplayed", id |-> id, at |-> rclock]]
            /\ UNCHANGED rstore
       ELSE /\ rattempt' = [rattempt EXCEPT ![a] = [pc |-> "accepted", id |-> id, at |-> rclock]]
            /\ rstore' = Record(rstore, id, ValidUntil)
    /\ rlog' = Append(rlog, id)
    /\ UNCHANGED rclock
    /\ UNCHANGED <<pipeVars, cacheVars, concVars>>

(* An attempt presents a proof older than the maximum proof age.           *)
ProofTooOld(a, id) ==
    /\ rattempt[a].pc = "ready"
    /\ rclock - ProofIssuedAt > maxProofAgeInSeconds
    /\ rattempt' = [rattempt EXCEPT ![a] = [pc |-> "ProofExpired", id |-> id, at |-> rclock]]
    /\ UNCHANGED <<rclock, rstore, rlog>>
    /\ UNCHANGED <<pipeVars, cacheVars, concVars>>

(* An entry whose validUntil has passed is evicted.                        *)
REvict ==
    /\ \E e \in rstore :
          /\ rclock > e.validUntil
          /\ rstore' = rstore \ {e}
    /\ UNCHANGED <<rclock, rattempt, rlog>>
    /\ UNCHANGED <<pipeVars, cacheVars, concVars>>

ReplayNext ==
    \/ RTick
    \/ \E a \in Attempts, id \in ProofIds : CheckAndRecord(a, id)
    \/ \E a \in Attempts, id \in ProofIds : ProofTooOld(a, id)
    \/ REvict

ReplaySpec == ReplayInit /\ [][ReplayNext]_vars

Using(id)    == {a \in Attempts : rattempt[a].pc # "ready" /\ rattempt[a].id = id}
Accepted(id) == {a \in Using(id) : rattempt[a].pc = "accepted"}
Replayed(id) == {a \in Using(id) : rattempt[a].pc = "ProofReplayed"}
InWindow(id) == {a \in Using(id) : rattempt[a].at <= ValidUntil}

----------------------------------------------------------------------------
(* Further properties of the verification pipeline.                        *)

(* C11: an access token is returned only by a run whose trust check passed *)
(* and whose call of the primitive succeeded; its header and payload are   *)
(* those the primitive returned and its signature is the third segment of  *)
(* the presented token after scheme stripping.                             *)
C11_AccessTokenFromPrimitive ==
    /\ accessToken.set <=> pc = "Accepted"
    /\ accessToken.set
          => /\ TrustCheckPassed
             /\ HasCall("jwtVerify")
             /\ JwtVerifyError(value(hdr), keys, VerifyOptions(maxAccessTokenAge)) = NoError
             /\ accessToken.header
                   = JwtVerify(value(hdr), keys, VerifyOptions(maxAccessTokenAge)).protectedHeader
             /\ accessToken.payload
                   = JwtVerify(value(hdr), keys, VerifyOptions(maxAccessTokenAge)).payload
             /\ Len(Split(value(hdr))) >= 3
             /\ accessToken.signature = Split(value(hdr))[3].part

C11_Witness ==
    /\ pc = "Accepted" /\ accessToken.set
    /\ hdr.pre = <<"Bearer ">>
    /\ accessToken.signature = "signature"

(* A credential whose token has not exactly three segments, whose middle   *)
(* segment cannot be decoded, or whose payload lacks a string iss or webid.*)
MalformedCredential ==
    \/ Len(Split(value(hdr))) # 3
    \/ ~hdr.payloadOk
    \/ hdr.iss.kind = "absent"
    \/ hdr.webid.kind = "absent"

(* C12: a malformed credential is rejected with MalformedToken before any  *)
(* call of the issuer resolver, the key-set resolver or the primitive.     *)
C12_MalformedRejectedFirst ==
    MalformedCredential
        => /\ pc \in {"start", "Rejected"}
           /\ calls = <<>>
           /\ pc = "Rejected" => error.kind = "MalformedToken"

CallCount(f) == Cardinality({i \in 1..Len(calls) : calls[i].fn = f})

NoRetryState ==
    /\ \A f \in {"issuers", "keySet", "jwtVerify"} : CallCount(f) <= 1
    /\ resolver = "rejected" => pc = "Rejected" /\ error.kind = "IssuerDiscoveryFailed"
    /\ error.kind = "UntrustedIssuer" => resolver = "resolved"
    /\ pc = "hung" => error = NoError /\ CallCount("issuers") = 1

(* C13: within one run each collaborator is invoked at most once, and a    *)
(* rejection of the issuer resolver or of the key-set resolver reaches the *)
(* caller as IssuerDiscoveryFailed or KeySetRetrievalFailed, never as      *)
(* UntrustedIssuer, without a further call.                                *)
C13_NoRetry ==
    /\ []NoRetryState
    /\ [][(pc \in {"dereference", "retrieve"} /\ pc' = "Rejected")
             => (error'.kind = "IssuerDiscoveryFailed" /\ calls' = calls)]_vars
    /\ [][(pc = "keySet" /\ pc' = "Rejected")
             => (error'.kind = "KeySetRetrievalFailed" /\ calls' = calls)]_vars

C13_Witness ==
    /\ pc = "Rejected" /\ error = Err("KeySetRetrievalFailed", "keySet")
    /\ Len(calls) = 2 /\ CallCount("issuers") = 1 /\ CallCount("keySet") = 1

----------------------------------------------------------------------------
(* Concurrent runs.  Every call of an entry point has its own locals       *)
(* (token, iss, webid, issuers, key set, result); a run record holds them, *)
(* and the steps between two awaits are functions of that record.          *)

NewRun(i, h, m, g) ==
    [impl |-> i, hdr |-> h, maxAge |-> m, getKeySet |-> g, pc |-> "start",
     resolver |-> "none", issuersRes |-> {}, keys |-> NoKeys, calls |-> <<>>,
     accessToken |-> NoToken, error |-> NoError]

RunReject(r, e) == [r EXCEPT !.pc = "Rejected", !.error = e]

RunClaims(r) ==
    IF r.impl = "verify"
    THEN verifiableClaims(value(r.hdr))
    ELSE verifiableClaimsSolid(value(r.hdr))

(* verify 81-88, verifySolidAccessToken 53-63.                             *)
RunStart(r) ==
    IF ~RunClaims(r).ok
    THEN RunReject(r, RunClaims(r).err)
    ELSE IF r.impl = "verifySolidAccessToken" /\ ~verifySecureUriClaim(RunClaims(r).webid)
    THEN RunReject(r, Err("InsecureClaimUri", "webid"))
    ELSE [r EXCEPT !.calls = Append(r.calls, Call("issuers", RunClaims(r).webid, NoOptions)),
                   !.resolver = "pending",
                   !.pc = IF r.impl = "verify" THEN "dereference" ELSE "retrieve"]

(* The issuer resolver rejects (part_001 10-12, retrieveOidcIssuers).      *)
RunResolverRejects(r) ==
    [RunReject(r, Err("IssuerDiscoveryFailed",
                      IF r.impl = "verify" THEN "dereference" ELSE "retrieveOidcIssuers"))
        EXCEPT !.resolver = "rejected"]

(* The issuer resolver resolves with a list (part_001 17-27).              *)
RunResolverResolves(r, list) ==
    [r EXCEPT !.resolver = "resolved", !.issuersRes = list, !.pc = "issuers"]

(* verify 88-98, verifySolidAccessToken 66-80.                             *)
RunIssuerCheck(r) ==
    IF ~includes(r.issuersRes, RunClaims(r).iss)
    THEN RunReject(r, Err("UntrustedIssuer", "SolidIdentityInvalidIssuerClaim"))
    ELSE IF r.impl = "verifySolidAccessToken" /\ ~verifySecureUriClaim(RunClaims(r).iss)
    THEN RunReject(r, Err("InsecureClaimUri", "iss"))
    ELSE IF r.impl = "verifySolidAccessToken" /\ ~r.getKeySet
    THEN RunReject(r, Err("KeySetRetrievalFailed", "TypeError: getKeySet is not a function"))
    ELSE [r EXCEPT !.calls = Append(r.calls, Call("keySet", RunClaims(r).iss, NoOptions)),
                   !.pc = "keySet"]

(* verify 96-105: keySet(iss) resolves, jwtVerify is called.               *)
RunKeySetResolves(r) ==
    [r EXCEPT !.keys = [owner |-> r.calls[Len(r.calls)].arg.host],
              !.calls = Append(r.calls, Call("jwtVerify", NoUrl, VerifyOptions(r.maxAge))),
              !.pc = "jwtVerify"]

RunKeySetRejects(r) == RunReject(r, Err("KeySetRetrievalFailed", "keySet"))

(* verify 96-115: jwtVerify settles for the run's token and the key set k. *)
RunJwtVerifySettles(r, k) ==
    LET res == JwtVerify(value(r.hdr), k, r.calls[Len(r.calls)].options)
        at  == AssembleAccessToken(res, value(r.hdr))
    IN IF res.err # NoError
       THEN RunReject(r, res.err)
       ELSE IF ~isAccessToken(at)
       THEN RunReject(r, Err("MalformedToken", "isAccessToken"))
       ELSE [r EXCEPT !.accessToken = at, !.pc = "Accepted"]

(* What the caller of a run sees.                                          *)
Outcome(r) == [pc |-> r.pc, error |-> r.error, accessToken |-> r.accessToken, calls |-> r.calls]

(* A run executed alone, given what the issuer resolver answers (ro: its   *)
(* promise, list: the value) and what the key-set resolver answers (ko).   *)
SoloRun(i, h, m, g, ro, list, ko) ==
    LET r1 == RunStart(NewRun(i, h, m, g))
        r2 == IF ro = "rejected" THEN RunResolverRejects(r1)
              ELSE RunIssuerCheck(RunResolverResolves(r1, list))
        r3 == IF ko = "rejected" THEN RunKeySetRejects(r2) ELSE RunKeySetResolves(r2)
    IN IF r1.pc = "Rejected" THEN r1
       ELSE IF r2.pc = "Rejected" THEN r2
       ELSE IF r3.pc = "Rejected" THEN r3
       ELSE RunJwtVerifySettles(r3, r3.keys)

(* What the caller of the run of the pipeline sees.                        *)
PipeOutcome == [pc |-> pc, error |-> error, accessToken |-> accessToken, calls |-> calls]

(* What the collaborators answered in the run of the pipeline.             *)
ResolverAnswer == IF resolver = "rejected" THEN "rejected" ELSE "resolved"
KeySetAnswer   == IF error = Err("KeySetRetrievalFailed", "keySet") THEN "rejected" ELSE "resolved"

Bare(h) == [h EXCEPT !.pre = <<>>]

(* C16: scheme stripping removes one leading "DPoP " or "Bearer " and      *)
(* nothing else: a run on "DPoP t", on "Bearer t" or on the bare t makes   *)
(* the calls and has the outcome of the run on t with the same             *)
(* collaborator answers, and no second scheme word is removed.             *)
C16_SchemeStripping ==
    /\ (Terminal /\ hdr.pre \in {<<>>, <<"DPoP ">>, <<"Bearer ">>})
          => PipeOutcome = Outcome(SoloRun(impl, Bare(hdr), maxAccessTokenAge, hasGetKeySet,
                                           ResolverAnswer, issuersRes, KeySetAnswer))
    /\ pc = "Accepted" => Len(hdr.pre) <= 1 /\ value(hdr).pre = <<>>

C16_Witness ==
    /\ hdr.pre = <<>> /\ pc = "Accepted"
    /\ PipeOutcome = Outcome(SoloRun(impl, [hdr EXCEPT !.pre = <<"DPoP ">>], maxAccessTokenAge,
                                     hasGetKeySet, ResolverAnswer, issuersRes, KeySetAnswer))

----------------------------------------------------------------------------
(* Several calls of the entry points in flight at once, interleaved at     *)
(* their awaits.                                                           *)

NumRuns == 2

RunIds == 1..NumRuns

ConcHeaders ==
    {GoodHeader,
     [GoodHeader EXCEPT !.alg = "HS256"],
     [GoodHeader EXCEPT !.signer = "evil.example"],
     [GoodHeader EXCEPT !.iss = EvilSlash, !.signer = "evil.example"]}

ConcIssuerLists == {{IdpSlash}, {EvilSlash}}

ConcInit ==
    /\ runs \in [RunIds -> {NewRun(i, h, maxAccessTokenAgeInSeconds, TRUE) :
                               i \in {"verify", "verifySolidAccessToken"}, h \in ConcHeaders}]
    /\ PipeIdle
    /\ CacheIdle
    /\ ReplayIdle

(* The key set a run passes to jwtVerify, taken from a variable all runs   *)
(* share.                                                                  *)
KeysShared(rs, i) == rs[1].keys

(* The key set a run passes to jwtVerify: the value its own await of       *)
(* keySet(iss) produced.                                                   *)
KeysOf(rs, i) == rs[i].keys

ConcStart(i) ==
    /\ runs[i].pc = "start"
    /\ runs' = [runs EXCEPT ![i] = RunStart(runs[i])]
    /\ UNCHANGED <<pipeVars, cacheVars, replayVars>>

ConcResolverRejects(i) ==
    /\ runs[i].pc \in {"dereference", "retrieve"}
    /\ runs' = [runs EXCEPT ![i] = RunResolverRejects(runs[i])]
    /\ UNCHANGED <<pipeVars, cacheVars, replayVars>>

ConcDereferenceResolves(i) ==
    /\ runs[i].pc = "dereference"
    /\ runs' = [runs EXCEPT ![i].pc = "streaming"]
    /\ UNCHANGED <<pipeVars, cacheVars, replayVars>>

ConcResolverResolves(i) ==
    /\ runs[i].pc \in {"streaming", "retrieve"}
    /\ \E list \in ConcIssuerLists :
          runs' = [runs EXCEPT ![i] = RunResolverResolves(runs[i], list)]
    /\ UNCHANGED <<pipeVars, cacheVars, replayVars>>

ConcStreamError(i) ==
    /\ runs[i].pc = "streaming"
    /\ runs' = [runs EXCEPT ![i].pc = "hung"]
    /\ UNCHANGED <<pipeVars, cacheVars, replayVars>>

ConcIssuerCheck(i) ==
    /\ runs[i].pc = "issuers"
    /\ runs' = [runs EXCEPT ![i] = RunIssuerCheck(runs[i])]
    /\ UNCHANGED <<pipeVars, cacheVars, replayVars>>

ConcKeySetResolves(i) ==
    /\ runs[i].pc = "keySet"
    /\ runs' = [runs EXCEPT ![i] = RunKeySetResolves(runs[i])]
    /\ UNCHANGED <<pipeVars, cacheVars, replayVars>>

ConcKeySetRejects(i) ==
    /\ runs[i].pc = "keySet"
    /\ runs' = [runs EXCEPT ![i] = RunKeySetRejects(runs[i])]
    /\ UNCHANGED <<pipeVars, cacheVars, replayVars>>

ConcJwtVerifySettles(i) ==
    /\ runs[i].pc = "jwtVerify"
    /\ runs' = [runs EXCEPT ![i] = RunJwtVerifySettles(runs[i], KeysOf(runs, i))]
    /\ UNCHANGED <<pipeVars, cacheVars, replayVars>>

ConcNext ==
    \/ \E i \in RunIds : ConcStart(i)
    \/ \E i \in RunIds : ConcResolverRejects(i)
    \/ \E i \in RunIds : ConcDereferenceResolves(i)
    \/ \E i \in RunIds : ConcResolverResolves(i)
    \/ \E i \in RunIds : ConcStreamError(i)
    \/ \E i \in RunIds : ConcIssuerCheck(i)
    \/ \E i \in RunIds : ConcKeySetResolves(i)
    \/ \E i \in RunIds : ConcKeySetRejects(i)
    \/ \E i \in RunIds : ConcJwtVerifySettles(i)

ConcSpec == ConcInit /\ [][ConcNext]_vars

RunTerminal(r) == r.pc \in {"Accepted", "Rejected"}

RunResolverAnswer(r) == IF r.resolver = "rejected" THEN "rejected" ELSE "resolved"
RunKeySetAnswer(r) ==
    IF r.error = Err("KeySetRetrievalFailed", "keySet") THEN "rejected" ELSE "resolved"

(* C17: whatever the interleaving of the runs at their awaits, the outcome *)
(* of each run is the outcome of the same call executed alone with the     *)
(* same collaborator answers.                                              *)
C17_RunsDoNotInterfere ==
    \A i \in RunIds :
        RunTerminal(runs[i])
            => Outcome(runs[i])
                 = Outcome(SoloRun(runs[i].impl, runs[i].hdr, runs[i].maxAge, runs[i].getKeySet,
                                   RunResolverAnswer(runs[i]), runs[i].issuersRes,
                                   RunKeySetAnswer(runs[i])))

C17_Witness ==
    /\ runs[1].pc = "Accepted" /\ runs[1].hdr.iss = IdpSlash
    /\ runs[2].pc = "Accepted" /\ runs[2].hdr.iss = EvilSlash
    /\ runs[1].keys # runs[2].keys

(* C14: two runs whose tokens fail checks of the primitive are rejected    *)
(* with the same caller-visible error.                                     *)
C14_OnePrimitiveFailure ==
    \A i, j \in RunIds :
        (/\ runs[i].pc = "Rejected" /\ runs[j].pc = "Rejected"
         /\ runs[i].error.kind = "SignatureOrClaimInvalid"
         /\ runs[j].error.kind = "SignatureOrClaimInvalid")
            => runs[i].error = runs[j].error

----------------------------------------------------------------------------
(* The shared stores under the flows that use them: either the issuer      *)
(* cache with its resolving flows or the replay store with its attempts.   *)

CacheInUse  == cflow # <<>>
ReplayInUse == rattempt # <<>>

StoreInit == CacheInit \/ ReplayInit

StoreNext ==
    \/ CacheInUse /\ CacheNext
    \/ ReplayInUse /\ ReplayNext

StoreSpec == StoreInit /\ [][StoreNext]_vars

(* Every cache entry is the result of a fetch that succeeded.              *)
OnlyFetchedEntries ==
    CacheInUse
        => \A id \in Identities :
              ccache[id].set
                 => clastStore[id] >= 0 /\ ccache[id].expiry = clastStore[id] + IssuerCacheTtl

(* C15: a step that fails leaves the cache and the replay store as they    *)
(* were; an entry is written only by the step in which its fetch or its    *)
(* check succeeds, and whole; so a verification abandoned at any point     *)
(* leaves no partial entry behind.                                         *)
C15_WritesOnlyAfterSuccess ==
    /\ []OnlyFetchedEntries
    /\ [][ccache' # ccache
             => \E f \in Flows :
                   /\ cflow[f].pc = "fetching" /\ cflow'[f].pc = "idle"
                   /\ clastStore'[cflow[f].id] = cclock
                   /\ ccache' = CachePut(ccache, cflow[f].id, cclock)]_vars
    /\ [][(CacheInUse /\ \E r \in clog' \ clog : ~r.ok) => ccache' = ccache]_vars
    /\ [][rstore' \ rstore # {}
             => \E a \in Attempts :
                   /\ rattempt[a].pc = "ready" /\ rattempt'[a].pc = "accepted"
                   /\ rstore' = rstore \cup {[id |-> rattempt'[a].id, validUntil |-> ValidUntil]}]_vars
    /\ [][(ReplayInUse /\ \E a \in Attempts :
              rattempt[a].pc = "ready" /\ rattempt'[a].pc \in {"ProofReplayed", "ProofExpired"})
             => rstore' = rstore]_vars

C15_Witness ==
    /\ CacheInUse
    /\ \E r \in clog : ~r.ok /\ r.fetched = 1 /\ ~ccache[r.id].set

====
